---------------------------- MODULE Spec2Model ----------------------------
(***************************************************************************)
(* Model of the EVOLVE-BLOCK protocol of code_evolution: the ProgramManager *)
(* (validate_program, extract_evolve_blocks, replace_evolve_blocks,         *)
(* create_version) and the EvolveBlock value type, over a small file        *)
(* system; the replace_evolve_blocks and evaluate_program tools of the      *)
(* proposer; and main() of the command line with EvolutionOrchestrator.run. *)
(*                                                                         *)
(* A text (a Python str) is a sequence of characters.  The two marker       *)
(* strings cannot overlap each other and hold no line terminator, so each   *)
(* occurrence of a marker is one character of the model; "a" and "b" stand  *)
(* for any other character.  A file holds the text that open(path, 'r')     *)
(* returns for it.                                                          *)
(***************************************************************************)
EXTENDS Integers, Sequences, FiniteSets, TLC

VARIABLES
    files,  \* the file at each path: NoFile, or File(text)
    dirs,   \* the directories that exist
    last,   \* the last call made: its arguments and what it returned or raised
    cli,    \* the command line process: where it is in main(), the steps and
            \* handoffs of the swarm, its exit code and the path to it
    evaluation  \* the evaluate call in progress: its state and its runs, and
                \* the evaluations scheduled as tasks

vars == <<files, dirs, last, cli, evaluation>>

-----------------------------------------------------------------------------
(* Bounds of the model *)

\* longest program, in lines, of the rewrite specification Spec
MaxLines == 4
\* longest program, in lines, of the parsing specification SpecParse
MaxParseLines == 4
\* longest replacement list; replacement ids range over 0..MaxBlocks-1
MaxBlocks == 2
\* largest iteration number handed to create_version
MaxIter == 2
\* largest number of sections in the block_modifications argument of the
\* replace_evolve_blocks tool
MaxSections == 2
MaxScheduled == 2

-----------------------------------------------------------------------------
(* Characters and strings *)

BLOCK_START_MARKER == "# EVOLVE-BLOCK-START"
BLOCK_END_MARKER == "# EVOLVE-BLOCK-END"
NL == "\n"

\* marker in line
Contains(line, marker) == \E i \in DOMAIN line : line[i] = marker

\* content.count(marker)
Count(content, marker) == Cardinality({i \in DOMAIN content : content[i] = marker})

\* position of the first line terminator of text, 0 when it has none
FirstNL(text) ==
    IF \E i \in DOMAIN text : text[i] = NL
    THEN CHOOSE i \in DOMAIN text :
            text[i] = NL /\ \A j \in 1..(i - 1) : text[j] # NL
    ELSE 0

\* f.readlines(): the lines of text, each keeping its terminator
RECURSIVE ReadLines(_)
ReadLines(text) ==
    IF text = <<>> THEN <<>>
    ELSE LET k == FirstNL(text) IN
         IF k = 0 THEN <<text>>
         ELSE <<SubSeq(text, 1, k)>> \o ReadLines(SubSeq(text, k + 1, Len(text)))

\* content.split('\n'): the pieces between terminators, terminators dropped
RECURSIVE SplitNL(_)
SplitNL(text) ==
    LET k == FirstNL(text) IN
    IF k = 0 THEN <<text>>
    ELSE <<SubSeq(text, 1, k - 1)>> \o SplitNL(SubSeq(text, k + 1, Len(text)))

\* ''.join(strings), and what f.writelines(strings) writes
RECURSIVE Join(_)
Join(strings) ==
    IF strings = <<>> THEN <<>> ELSE Head(strings) \o Join(Tail(strings))

\* s.endswith('\n')
EndsWithNL(s) == s # <<>> /\ s[Len(s)] = NL

\* lines[a:b] of a Python list (zero-based, b exclusive), as a 1-based sequence
Slice(lines, a, b) == SubSeq(lines, a + 1, b)

-----------------------------------------------------------------------------
(* EvolveBlock *)

InvalidBlock == [invalid |-> "ValueError"]

\* EvolveBlock(...) with __post_init__: the record, or the construction failure
EvolveBlock(start_line, end_line, content, block_id) ==
    IF start_line < 0 \/ end_line < start_line \/ block_id < 0
    THEN InvalidBlock
    ELSE [start_line |-> start_line, end_line |-> end_line,
          content |-> content, block_id |-> block_id]

-----------------------------------------------------------------------------
(* The file system *)

\* a path holds no file, or a file with a text
NoFile == <<>>
File(text) == <<text>>

\* path.exists()
Exists(fs, path) == fs[path] # NoFile

\* the text open(path, 'r') reads
Read(fs, path) == fs[path][1]

\* the path of the initial program
ProgramPath == [dir |-> "src", stem |-> "program", num |-> 0]

\* output_dir / f"iteration_{iteration_num:03d}{extension}"; every program of
\* the model has the same extension, and the zero-padded number of the name
\* is kept as the number
VersionPath(output_dir, iteration_num) ==
    [dir |-> output_dir, stem |-> "iteration", num |-> iteration_num]

OutputDir == "out"

\* a path in a directory no file can be created in: opening it for writing
\* raises IOError
LockedPath == [dir |-> "locked", stem |-> "program", num |-> 0]

Paths ==
    {ProgramPath, LockedPath} \cup {VersionPath(OutputDir, n) : n \in 1..MaxIter}

\* open(path, 'w') succeeds
Writable(path) == path # LockedPath

-----------------------------------------------------------------------------
(* ProgramManager.validate_program *)

\* mutant: the stack is not looked at when the loop ends
RECURSIVE ValidateScanAnyStack(_, _, _)
ValidateScanAnyStack(lines, i, stack) ==
    IF i > Len(lines) THEN TRUE
    ELSE IF Contains(lines[i], BLOCK_START_MARKER)
         THEN ValidateScanAnyStack(lines, i + 1, Append(stack, "start"))
    ELSE IF Contains(lines[i], BLOCK_END_MARKER)
         THEN IF stack = <<>> \/ stack[Len(stack)] # "start"
              THEN FALSE
              ELSE ValidateScanAnyStack(lines, i + 1, SubSeq(stack, 1, Len(stack) - 1))
    ELSE ValidateScanAnyStack(lines, i + 1, stack)

\* the loop over lines with its stack; TRUE iff it ends with an empty stack
RECURSIVE ValidateScan(_, _, _)
ValidateScan(lines, i, stack) ==
    IF i > Len(lines) THEN Len(stack) = 0
    ELSE IF Contains(lines[i], BLOCK_START_MARKER)
         THEN ValidateScan(lines, i + 1, Append(stack, "start"))
    ELSE IF Contains(lines[i], BLOCK_END_MARKER)
         THEN IF stack = <<>> \/ stack[Len(stack)] # "start"
              THEN FALSE
              ELSE ValidateScan(lines, i + 1, SubSeq(stack, 1, Len(stack) - 1))
    ELSE ValidateScan(lines, i + 1, stack)

\* mutant: the check that the two counts are equal is left out
ValidateContentNoCountCheck(content) ==
    LET start_count == Count(content, BLOCK_START_MARKER)
        end_count == Count(content, BLOCK_END_MARKER)
    IN  IF start_count = 0 \/ end_count = 0 THEN FALSE
        ELSE ValidateScan(SplitNL(content), 1, <<>>)

ValidateContent(content) ==
    LET start_count == Count(content, BLOCK_START_MARKER)
        end_count == Count(content, BLOCK_END_MARKER)
    IN  IF start_count = 0 \/ end_count = 0 THEN FALSE
        ELSE IF start_count # end_count THEN FALSE
        ELSE ValidateScan(SplitNL(content), 1, <<>>)

\* the value validate_program returns on file system fs
validate_program(fs, program_path) ==
    IF ~Exists(fs, program_path) THEN FALSE
    ELSE ValidateContent(Read(fs, program_path))

-----------------------------------------------------------------------------
(* ProgramManager.extract_evolve_blocks *)

NoEnd == -1

\* the inner for loop: the first j in i+1..len(lines)-1 whose line holds the
\* end marker, NoEnd when there is none (indices zero-based)
FindEnd(lines, i) ==
    LET js == {j \in (i + 1)..(Len(lines) - 1) :
                  Contains(lines[j + 1], BLOCK_END_MARKER)}
    IN  IF js = {} THEN NoEnd
        ELSE CHOOSE j \in js : \A k \in js : j <= k

\* mutant: the error reports the zero-based index of the line
MissingEndZeroBased(start_line) == [kind |-> "missing_end", line |-> start_line]

\* the ValueError for a start marker without an end marker, with the line
\* number it reports
MissingEnd(start_line) == [kind |-> "missing_end", line |-> start_line + 1]

\* mutant: the scan goes on at the end marker line
ExtractResumeAtEnd(end_line) == end_line

\* i = end_line + 1: the scan goes on after the end marker line
ExtractResume(end_line) == end_line + 1

\* mutant: the start marker line is taken into the content
BlockContentFromStart(lines, start_line, end_line) ==
    Join(Slice(lines, start_line, end_line))

\* ''.join(lines[start_line + 1:end_line])
BlockContent(lines, start_line, end_line) ==
    Join(Slice(lines, start_line + 1, end_line))

\* the while loop of extract_evolve_blocks from position i on
RECURSIVE ExtractLoop(_, _, _, _)
ExtractLoop(lines, i, block_id, blocks) ==
    IF i >= Len(lines) THEN [kind |-> "ok", blocks |-> blocks]
    ELSE IF Contains(lines[i + 1], BLOCK_START_MARKER)
         THEN LET start_line == i
                  end_line == FindEnd(lines, i)
              IN  IF end_line = NoEnd THEN MissingEnd(start_line)
                  ELSE LET content == BlockContent(lines, start_line, end_line)
                           block == EvolveBlock(start_line, end_line, content, block_id)
                       IN  IF block = InvalidBlock
                           THEN [kind |-> "invalid_block"]
                           ELSE ExtractLoop(lines, ExtractResume(end_line), block_id + 1,
                                            Append(blocks, block))
    ELSE ExtractLoop(lines, i + 1, block_id, blocks)

FileNotFound == [kind |-> "file_not_found"]

\* what extract_evolve_blocks returns or raises on file system fs
extract_evolve_blocks(fs, program_path) ==
    IF ~Exists(fs, program_path) THEN FileNotFound
    ELSE ExtractLoop(ReadLines(Read(fs, program_path)), 0, 0, <<>>)

-----------------------------------------------------------------------------
(* ProgramManager.replace_evolve_blocks *)

\* mutant: only a list that is too short is rejected
CheckCountFewer(blocks, current_blocks) ==
    IF Len(blocks) < Len(current_blocks)
    THEN [kind |-> "count_mismatch", expected |-> Len(current_blocks),
          got |-> Len(blocks)]
    ELSE [kind |-> "ok"]

\* the count check: the error raised, or "ok"
CheckCount(blocks, current_blocks) ==
    IF Len(blocks) # Len(current_blocks)
    THEN [kind |-> "count_mismatch", expected |-> Len(current_blocks),
          got |-> Len(blocks)]
    ELSE [kind |-> "ok"]

\* one step of sorted(): block placed after the blocks whose key is not larger
InsertById(sorted, block) ==
    LET k == Cardinality({j \in DOMAIN sorted :
                             sorted[j].block_id <= block.block_id})
    IN  SubSeq(sorted, 1, k) \o <<block>> \o SubSeq(sorted, k + 1, Len(sorted))

\* mutant: the list is used in the order given
SortByIdUnsorted(blocks) == blocks

\* sorted(blocks, key=lambda b: b.block_id), a stable sort
RECURSIVE SortById(_)
SortById(blocks) ==
    IF blocks = <<>> THEN <<>>
    ELSE InsertById(SortById(SubSeq(blocks, 1, Len(blocks) - 1)),
                    blocks[Len(blocks)])

\* mutant: a pair is rejected only when the new id is the larger one
CheckIdsAbove(sorted_blocks, current_blocks) ==
    LET n == IF Len(sorted_blocks) < Len(current_blocks)
             THEN Len(sorted_blocks) ELSE Len(current_blocks)
        bad == {k \in 1..n :
                   sorted_blocks[k].block_id > current_blocks[k].block_id}
    IN  IF bad = {} THEN [kind |-> "ok"]
        ELSE LET k == CHOOSE k \in bad : \A j \in bad : k <= j
             IN  [kind |-> "id_mismatch",
                  expected |-> current_blocks[k].block_id,
                  got |-> sorted_blocks[k].block_id]

\* the loop over zip(sorted_blocks, current_blocks): the error raised at the
\* first pair whose ids differ, or "ok"
CheckIds(sorted_blocks, current_blocks) ==
    LET n == IF Len(sorted_blocks) < Len(current_blocks)
             THEN Len(sorted_blocks) ELSE Len(current_blocks)
        bad == {k \in 1..n :
                   sorted_blocks[k].block_id # current_blocks[k].block_id}
    IN  IF bad = {} THEN [kind |-> "ok"]
        ELSE LET k == CHOOSE k \in bad : \A j \in bad : k <= j
             IN  [kind |-> "id_mismatch",
                  expected |-> current_blocks[k].block_id,
                  got |-> sorted_blocks[k].block_id]

\* mutant: a terminator is appended to empty content too
NewContentAlways(content) ==
    IF ~EndsWithNL(content) THEN content \o <<NL>> ELSE content

\* mutant: the content is inserted as given
NewContentAsGiven(content) == content

\* mutant: a terminator is appended to all content that is not empty
NewContentUnlessEmpty(content) ==
    IF content # <<>> THEN content \o <<NL>> ELSE content

\* the content as inserted: a terminator is appended to content that is not
\* empty and does not end with one
NewContent(content) ==
    IF content # <<>> /\ ~EndsWithNL(content) THEN content \o <<NL>> ELSE content

\* mutant: the start marker line is not kept
RegionLinesDropStart(start_marker_line, content, end_marker_line) ==
    <<NewContent(content), end_marker_line>>

\* mutant: the end marker line is not kept
RegionLinesDropEnd(start_marker_line, content, end_marker_line) ==
    <<start_marker_line, NewContent(content)>>

\* what a region contributes to new_lines: the start marker line, the new
\* content, the end marker line
RegionLines(start_marker_line, content, end_marker_line) ==
    <<start_marker_line, NewContent(content), end_marker_line>>

\* mutant: the walk resumes after the start marker line, not after the end
\* marker line
RECURSIVE RewriteLoopResumeAfterStart(_, _, _, _, _)
RewriteLoopResumeAfterStart(lines, sorted_blocks, i, block_idx, new_lines) ==
    IF i >= Len(lines)
    THEN [kind |-> "ok", new_lines |-> new_lines, block_idx |-> block_idx]
    ELSE IF Contains(lines[i + 1], BLOCK_START_MARKER)
         THEN LET end_line == FindEnd(lines, i) IN
              IF end_line = NoEnd THEN MissingEnd(i)
              ELSE IF block_idx >= Len(sorted_blocks)
                   THEN [kind |-> "index_error", block_idx |-> block_idx]
              ELSE RewriteLoopResumeAfterStart(lines, sorted_blocks, i + 1, block_idx + 1,
                               new_lines \o RegionLines(lines[i + 1],
                                                         sorted_blocks[block_idx + 1].content,
                                                         lines[end_line + 1]))
    ELSE RewriteLoopResumeAfterStart(lines, sorted_blocks, i + 1, block_idx,
                                     Append(new_lines, lines[i + 1]))

\* the while loop of replace_evolve_blocks from position i on
RECURSIVE RewriteLoop(_, _, _, _, _)
RewriteLoop(lines, sorted_blocks, i, block_idx, new_lines) ==
    IF i >= Len(lines)
    THEN [kind |-> "ok", new_lines |-> new_lines, block_idx |-> block_idx]
    ELSE IF Contains(lines[i + 1], BLOCK_START_MARKER)
         THEN LET end_line == FindEnd(lines, i) IN
              IF end_line = NoEnd THEN MissingEnd(i)
              ELSE IF block_idx >= Len(sorted_blocks)
                   THEN [kind |-> "index_error", block_idx |-> block_idx]
              ELSE RewriteLoop(lines, sorted_blocks, end_line + 1, block_idx + 1,
                               new_lines \o RegionLines(lines[i + 1],
                                                         sorted_blocks[block_idx + 1].content,
                                                         lines[end_line + 1]))
    ELSE RewriteLoop(lines, sorted_blocks, i + 1, block_idx, Append(new_lines, lines[i + 1]))

\* replace_evolve_blocks up to the write: "ok" with the lines to write, or the
\* error raised
Rewrite(fs, program_path, blocks) ==
    IF ~Exists(fs, program_path) THEN FileNotFound
    ELSE LET lines == ReadLines(Read(fs, program_path))
             current == extract_evolve_blocks(fs, program_path)
         IN  IF current.kind # "ok" THEN current
             ELSE IF CheckCount(blocks, current.blocks).kind # "ok"
                  THEN CheckCount(blocks, current.blocks)
             ELSE LET sorted_blocks == SortById(blocks) IN
                  IF CheckIds(sorted_blocks, current.blocks).kind # "ok"
                  THEN CheckIds(sorted_blocks, current.blocks)
                  ELSE RewriteLoop(lines, sorted_blocks, 0, 0, <<>>)

IOFailure == [kind |-> "io_error"]

\* the write: parent directories made, the file created or overwritten
WriteOutput(fs, ds, output_path, new_lines) ==
    [files |-> [fs EXCEPT ![output_path] = File(Join(new_lines))],
     dirs |-> ds \cup {output_path.dir}]

\* mutant: the output file is opened for writing before the checks, so that a
\* failed call leaves it empty
replace_evolve_blocks_open_first(fs, ds, program_path, blocks, output_path) ==
    LET r == Rewrite(fs, program_path, blocks) IN
    IF r.kind = "ok"
    THEN [result |-> [kind |-> "ok", block_idx |-> r.block_idx]]
            @@ WriteOutput(fs, ds, output_path, r.new_lines)
    ELSE [result |-> r] @@ WriteOutput(fs, ds, output_path, <<>>)

\* replace_evolve_blocks: its outcome and the file system it leaves
replace_evolve_blocks(fs, ds, program_path, blocks, output_path) ==
    LET r == Rewrite(fs, program_path, blocks) IN
    IF r.kind # "ok" THEN [result |-> r, files |-> fs, dirs |-> ds]
    ELSE IF ~Writable(output_path)
         THEN [result |-> IOFailure, files |-> fs,
               dirs |-> ds \cup {output_path.dir}]
    ELSE [result |-> [kind |-> "ok", block_idx |-> r.block_idx]]
            @@ WriteOutput(fs, ds, output_path, r.new_lines)

-----------------------------------------------------------------------------
(* ProgramManager.create_version *)

InvalidIteration == [kind |-> "invalid_iteration"]

\* create_version: its outcome (the path returned, or the error raised) and
\* the file system it leaves
create_version(fs, ds, base_program, modified_blocks, iteration_num, output_dir) ==
    IF iteration_num < 1
    THEN [result |-> InvalidIteration, files |-> fs, dirs |-> ds]
    ELSE replace_evolve_blocks(fs, ds \cup {output_dir}, base_program, modified_blocks,
                               VersionPath(output_dir, iteration_num))

-----------------------------------------------------------------------------
(* The replace_evolve_blocks tool of researcher_tools *)

\* the tokens of block_modifications: the separator and the header prefix
\* are one character of the model each, like the markers
SEPARATOR == "---"
BLOCK_ID_PREFIX == "BLOCK_ID:"
Whitespace == {NL, " "}

RECURSIVE StripLeft(_)
StripLeft(s) ==
    IF s # <<>> /\ Head(s) \in Whitespace THEN StripLeft(Tail(s)) ELSE s

RECURSIVE StripRight(_)
StripRight(s) ==
    IF s # <<>> /\ s[Len(s)] \in Whitespace
    THEN StripRight(SubSeq(s, 1, Len(s) - 1))
    ELSE s

\* s.strip()
Strip(s) == StripRight(StripLeft(s))

\* position of the first separator of text, 0 when it has none
FirstSeparator(text) ==
    IF \E i \in DOMAIN text : text[i] = SEPARATOR
    THEN CHOOSE i \in DOMAIN text :
            text[i] = SEPARATOR /\ \A j \in 1..(i - 1) : text[j] # SEPARATOR
    ELSE 0

\* text.split('---')
RECURSIVE SplitSeparator(_)
SplitSeparator(text) ==
    LET k == FirstSeparator(text) IN
    IF k = 0 THEN <<text>>
    ELSE <<SubSeq(text, 1, k - 1)>> \o SplitSeparator(SubSeq(text, k + 1, Len(text)))

\* section.split('\n', 1)
SplitFirstNL(section) ==
    LET k == FirstNL(section) IN
    IF k = 0 THEN <<section>>
    ELSE <<SubSeq(section, 1, k - 1), SubSeq(section, k + 1, Len(section))>>

\* header.startswith('BLOCK_ID:')
StartsWithPrefix(header) == header # <<>> /\ header[1] = BLOCK_ID_PREFIX

Digits == {"0", "1", "2"}
DigitValue(c) == IF c = "0" THEN 0 ELSE IF c = "1" THEN 1 ELSE 2
NoInt == -1

\* int(header.split(':', 1)[1].strip()) for the numbers of one digit; NoInt
\* when int() raises ValueError
ParseBlockId(header) ==
    LET digits == Strip(Tail(header)) IN
    IF Len(digits) = 1 /\ digits[1] \in Digits THEN DigitValue(digits[1]) ELSE NoInt

ToolError(message) == [kind |-> "error", message |-> message]

\* mutant: a section without content is skipped like an empty section
RECURSIVE ParseSectionsSkipMalformed(_, _, _, _, _)
ParseSectionsSkipMalformed(fs, program_path, sections, i, blocks_to_replace) ==
    IF i > Len(sections) THEN [kind |-> "ok", blocks |-> blocks_to_replace]
    ELSE LET section == Strip(sections[i]) IN
         IF section = <<>>
         THEN ParseSectionsSkipMalformed(fs, program_path, sections, i + 1, blocks_to_replace)
         ELSE LET lines == SplitFirstNL(section) IN
              IF Len(lines) < 2
              THEN ParseSectionsSkipMalformed(fs, program_path, sections, i + 1,
                                              blocks_to_replace)
              ELSE LET header == Strip(lines[1]) IN
                   IF ~StartsWithPrefix(header) THEN ToolError("Expected BLOCK_ID")
                   ELSE LET block_id == ParseBlockId(header)
                            content == lines[2]
                        IN
                        IF block_id = NoInt THEN ToolError("Invalid block ID")
                        ELSE LET original == extract_evolve_blocks(fs, program_path) IN
                             IF original.kind = "file_not_found"
                             THEN ToolError("File not found")
                             ELSE IF original.kind # "ok"
                                  THEN ToolError("Error replacing blocks")
                             ELSE LET found == {k \in DOMAIN original.blocks :
                                                   original.blocks[k].block_id = block_id}
                                  IN
                                  IF found = {} THEN ToolError("Block ID not found")
                                  ELSE LET original_block ==
                                               original.blocks[CHOOSE k \in found :
                                                                  \A j \in found : k <= j]
                                       IN  ParseSectionsSkipMalformed(fs, program_path, sections, i + 1,
                                               Append(blocks_to_replace,
                                                      EvolveBlock(original_block.start_line,
                                                                  original_block.end_line,
                                                                  content, block_id)))

\* the loop over the sections from section i on: the blocks to replace, or
\* the error message returned
RECURSIVE ParseSections(_, _, _, _, _)
ParseSections(fs, program_path, sections, i, blocks_to_replace) ==
    IF i > Len(sections) THEN [kind |-> "ok", blocks |-> blocks_to_replace]
    ELSE LET section == Strip(sections[i]) IN
         IF section = <<>>
         THEN ParseSections(fs, program_path, sections, i + 1, blocks_to_replace)
         ELSE LET lines == SplitFirstNL(section) IN
              IF Len(lines) < 2 THEN ToolError("Invalid block modification format")
              ELSE LET header == Strip(lines[1]) IN
                   IF ~StartsWithPrefix(header) THEN ToolError("Expected BLOCK_ID")
                   ELSE LET block_id == ParseBlockId(header)
                            content == lines[2]
                        IN
                        IF block_id = NoInt THEN ToolError("Invalid block ID")
                        ELSE LET original == extract_evolve_blocks(fs, program_path) IN
                             IF original.kind = "file_not_found"
                             THEN ToolError("File not found")
                             ELSE IF original.kind # "ok"
                                  THEN ToolError("Error replacing blocks")
                             ELSE LET found == {k \in DOMAIN original.blocks :
                                                   original.blocks[k].block_id = block_id}
                                  IN
                                  IF found = {} THEN ToolError("Block ID not found")
                                  ELSE LET original_block ==
                                               original.blocks[CHOOSE k \in found :
                                                                  \A j \in found : k <= j]
                                       IN  ParseSections(fs, program_path, sections, i + 1,
                                               Append(blocks_to_replace,
                                                      EvolveBlock(original_block.start_line,
                                                                  original_block.end_line,
                                                                  content, block_id)))

\* the message the tool returns for what ProgramManager.replace_evolve_blocks
\* raised
ToolErrorOf(result) ==
    IF result.kind = "file_not_found" THEN ToolError("File not found")
    ELSE IF result.kind = "io_error" THEN ToolError("Unexpected error")
    ELSE ToolError("Error replacing blocks")

\* the replace_evolve_blocks tool: what it returns and the file system it
\* leaves
tool_replace_evolve_blocks(fs, ds, program_path, output_path, block_modifications) ==
    LET parsed == ParseSections(fs, program_path,
                                SplitSeparator(Strip(block_modifications)), 1, <<>>)
    IN  IF parsed.kind # "ok" THEN [result |-> parsed, files |-> fs, dirs |-> ds]
        ELSE IF parsed.blocks = <<>>
             THEN [result |-> ToolError("No valid block modifications found"),
                   files |-> fs, dirs |-> ds]
        ELSE LET r == replace_evolve_blocks(fs, ds, program_path, parsed.blocks,
                                            output_path)
             IN  IF r.result.kind = "ok"
                 THEN [result |-> [kind |-> "success", updated |-> Len(parsed.blocks)],
                       files |-> r.files, dirs |-> r.dirs]
                 ELSE [result |-> ToolErrorOf(r.result), files |-> r.files,
                       dirs |-> r.dirs]

-----------------------------------------------------------------------------
(* Program texts *)

\* the sequences over S of length at most n
SeqsUpTo(S, n) == UNION {[1..k -> S] : k \in 0..n}

\* the text whose lines have the bodies bs; the last line is terminated iff
\* terminated
TextOf(bs, terminated) ==
    Join([k \in 1..Len(bs) |->
            IF k < Len(bs) \/ terminated THEN bs[k] \o <<NL>> ELSE bs[k]])

TextsOf(Bodies, n) ==
    {TextOf(bs, t) : bs \in SeqsUpTo(Bodies, n), t \in BOOLEAN}

\* line bodies: other text, a start marker line, an end marker line
LineBodies == {<<"a">>, <<BLOCK_START_MARKER>>, <<BLOCK_END_MARKER>>}

\* and lines that hold more than one marker
ParseLineBodies ==
    LineBodies \cup {<<BLOCK_START_MARKER, BLOCK_END_MARKER>>,
                     <<BLOCK_END_MARKER, BLOCK_START_MARKER>>,
                     <<BLOCK_START_MARKER, BLOCK_START_MARKER>>}

Programs == TextsOf(LineBodies, MaxLines)

ParsePrograms == TextsOf(ParseLineBodies, MaxParseLines)

-----------------------------------------------------------------------------
(* Operations *)

NoCall == [op |-> "none"]

\* exit_code while the process runs
NoExit == -1

\* no command line process
NoCli == [pc |-> "none", exit_code |-> NoExit, iterations |-> 0, steps |-> 0,
          handoffs |-> 0, path |-> "none", summary |-> FALSE]

\* the program_path of no call
NoPath == [dir |-> "", stem |-> "", num |-> 0]

\* no evaluate call
NoEvaluation ==
    [state |-> "none", runs |-> <<>>, program_path |-> NoPath, scheduled |-> 0]

EmptyFiles == [p \in Paths |-> NoFile]

\* validate_program(program_path)
Validate(program_path) ==
    /\ last' = [op |-> "validate", program_path |-> program_path,
                result |-> validate_program(files, program_path)]
    /\ UNCHANGED <<files, dirs, cli, evaluation>>

\* extract_evolve_blocks(program_path)
Extract(program_path) ==
    /\ last' = [op |-> "extract", program_path |-> program_path,
                result |-> extract_evolve_blocks(files, program_path)]
    /\ UNCHANGED <<files, dirs, cli, evaluation>>

\* replace_evolve_blocks(program_path, blocks, output_path)
Replace(program_path, blocks, output_path) ==
    LET r == replace_evolve_blocks(files, dirs, program_path, blocks, output_path) IN
    /\ last' = [op |-> "replace", program_path |-> program_path, blocks |-> blocks,
                output_path |-> output_path, file |-> files[program_path],
                result |-> r.result]
    /\ files' = r.files
    /\ dirs' = r.dirs
    /\ UNCHANGED <<cli, evaluation>>

\* create_version(base_program, modified_blocks, iteration_num, output_dir)
CreateVersion(base_program, modified_blocks, iteration_num, output_dir) ==
    LET r == create_version(files, dirs, base_program, modified_blocks,
                            iteration_num, output_dir) IN
    /\ last' = [op |-> "create_version", program_path |-> base_program,
                blocks |-> modified_blocks, iteration_num |-> iteration_num,
                output_path |-> VersionPath(output_dir, iteration_num),
                file |-> files[base_program], result |-> r.result]
    /\ files' = r.files
    /\ dirs' = r.dirs
    /\ UNCHANGED <<cli, evaluation>>

\* the effect of the replace_evolve_blocks tool called with (program_path,
\* output_path, block_modifications) on the file system and on last
ToolCall(program_path, output_path, block_modifications) ==
    LET r == tool_replace_evolve_blocks(files, dirs, program_path, output_path,
                                        block_modifications) IN
    /\ last' = [op |-> "tool_replace", program_path |-> program_path,
                output_path |-> output_path,
                block_modifications |-> block_modifications,
                file |-> files[program_path], result |-> r.result]
    /\ files' = r.files
    /\ dirs' = r.dirs

\* the replace_evolve_blocks tool called on its own
ToolReplace(program_path, output_path, block_modifications) ==
    /\ ToolCall(program_path, output_path, block_modifications)
    /\ UNCHANGED <<cli, evaluation>>

-----------------------------------------------------------------------------
(* Replacement lists *)

\* replacement contents: empty, without a final terminator, and one that
\* holds marker lines and ends with a terminator
Contents == {<<>>, <<"b">>,
             <<BLOCK_END_MARKER, NL, BLOCK_START_MARKER, NL>>}

Replacements ==
    {EvolveBlock(0, 0, c, id) : c \in Contents, id \in 0..(MaxBlocks - 1)}

BlockLists == SeqsUpTo(Replacements, MaxBlocks)

\* the list extract_evolve_blocks returns for the file, when it returns one
Extracted(fs, program_path) ==
    LET r == extract_evolve_blocks(fs, program_path) IN
    IF r.kind = "ok" THEN {r.blocks} ELSE {}

-----------------------------------------------------------------------------
(* Rewrite specification: one call of replace_evolve_blocks on any program  *)
(* text, with any replacement list or the list extracted from the program   *)

Init ==
    /\ \E text \in Programs : files = [EmptyFiles EXCEPT ![ProgramPath] = File(text)]
    /\ dirs = {ProgramPath.dir, LockedPath.dir}
    /\ last = NoCall
    /\ cli = NoCli
    /\ evaluation = NoEvaluation

Next ==
    \E blocks \in BlockLists \cup Extracted(files, ProgramPath) :
        last = NoCall /\ Replace(ProgramPath, blocks, VersionPath(OutputDir, 1))

Spec == Init /\ [][Next]_vars

-----------------------------------------------------------------------------
(* File system specification: any sequence of ProgramManager calls, on any  *)
(* paths, starting from a directory that holds the initial program only     *)

\* initial programs: one region among other lines, two regions, no region
SeedPrograms ==
    {TextOf(<<<<"a">>, <<BLOCK_START_MARKER>>, <<"a">>, <<BLOCK_END_MARKER>>>>, TRUE),
     TextOf(<<<<BLOCK_START_MARKER>>, <<BLOCK_END_MARKER>>,
              <<BLOCK_START_MARKER>>, <<BLOCK_END_MARKER>>>>, FALSE),
     TextOf(<<<<"a">>>>, TRUE)}

\* replacement lists: of every length up to two, in and out of id order, with
\* a repeated id
SeedLists ==
    {<<>>,
     <<EvolveBlock(0, 0, <<"b">>, 0)>>,
     <<EvolveBlock(0, 0, <<"b">>, 1)>>,
     <<EvolveBlock(0, 0, <<"b">>, 0), EvolveBlock(0, 0, <<>>, 1)>>,
     <<EvolveBlock(0, 0, <<>>, 1), EvolveBlock(0, 0, <<"b">>, 0)>>,
     <<EvolveBlock(0, 0, <<"b">>, 0), EvolveBlock(0, 0, <<"b">>, 0)>>}

InitFS ==
    /\ \E text \in SeedPrograms : files = [EmptyFiles EXCEPT ![ProgramPath] = File(text)]
    /\ dirs = {ProgramPath.dir, LockedPath.dir}
    /\ last = NoCall
    /\ cli = NoCli
    /\ evaluation = NoEvaluation

NextFS ==
    \/ \E p \in Paths : Validate(p)
    \/ \E p \in Paths : Extract(p)
    \/ \E p \in Paths, blocks \in SeedLists, o \in Paths : Replace(p, blocks, o)
    \/ \E p \in Paths, blocks \in SeedLists, n \in 0..MaxIter :
          CreateVersion(p, blocks, n, OutputDir)

SpecFS == InitFS /\ [][NextFS]_vars

-----------------------------------------------------------------------------
(* Version specification: any sequence of create_version calls that derive  *)
(* versions of the initial program into the output directory                *)

\* replacement lists for one region and for two regions, with different
\* contents for the same region, and a list for no region
VersionLists ==
    {<<>>,
     <<EvolveBlock(0, 0, <<"b">>, 0)>>,
     <<EvolveBlock(0, 0, <<>>, 0)>>,
     <<EvolveBlock(0, 0, <<"b">>, 0), EvolveBlock(0, 0, <<>>, 1)>>,
     <<EvolveBlock(0, 0, <<>>, 0), EvolveBlock(0, 0, <<"b">>, 1)>>}

NextVersions ==
    \E blocks \in VersionLists, n \in 0..MaxIter :
        CreateVersion(ProgramPath, blocks, n, OutputDir)

SpecVersions == InitFS /\ [][NextVersions]_vars

-----------------------------------------------------------------------------
(* Tool specification: one call of the replace_evolve_blocks tool, on any   *)
(* paths, with any block_modifications text of up to MaxSections sections   *)

\* header lines: the ids 0, 1 and 2, an id that is no number, no prefix
ToolHeaders ==
    {<<BLOCK_ID_PREFIX, " ", d>> : d \in Digits}
        \cup {<<BLOCK_ID_PREFIX, " ", "x">>, <<"x">>}

ToolContents == {<<"b">>, <<>>}

\* a section in the format the tool documents: the header line, the content,
\* the separator line
FormatSection(header, content) ==
    header \o <<NL>> \o content \o <<NL, SEPARATOR, NL>>

SectionTexts == {FormatSection(h, c) : h \in ToolHeaders, c \in ToolContents}

Requests == {Join(sections) : sections \in SeqsUpTo(SectionTexts, MaxSections)}

NextTool ==
    /\ last = NoCall
    /\ \E p \in Paths, o \in Paths, m \in Requests : ToolReplace(p, o, m)

SpecTool == InitFS /\ [][NextTool]_vars

-----------------------------------------------------------------------------
(* Command line specification: main() of code_evolution.py from the end of  *)
(* parse_arguments to its exit, with EvolutionOrchestrator.run, the steps   *)
(* of the swarm under the caps it is configured with, and the proposer's    *)
(* calls of the replace_evolve_blocks tool on the copy of the initial       *)
(* program                                                                  *)

\* args.evaluator
EvaluatorPath == [dir |-> "src", stem |-> "evaluator", num |-> 0]

\* output_dir / "programs" and output_dir / "conversations"
ProgramsDir == "out/programs"
ConversationsDir == "out/conversations"

\* output_dir / "programs" / the name that starts with v, the number n < 10
\* padded with zeros to width digits, and _<name>: the zeros of the padding
\* are in the stem, the last digit is num
PaddedVersionFile(width, n) ==
    [dir |-> ProgramsDir,
     stem |-> IF width = 3 THEN "v00_program"
              ELSE IF width = 2 THEN "v0_program" ELSE "v_program",
     num |-> n]

\* output_dir / "programs" / vXX_<name>, XX the version number
VersionFile(n) == PaddedVersionFile(2, n)

\* the copy of the initial program: v00_<name>
InitialProgramCopy == VersionFile(0)

CliPaths ==
    {ProgramPath, EvaluatorPath, PaddedVersionFile(3, 0)}
        \cup {VersionFile(n) : n \in 0..MaxIter}

\* sys.exit(code) in the validation functions
Exit(code) ==
    [cli EXCEPT !.pc = "exited", !.exit_code = code, !.path = "validation"]

\* mutant: main() has the clause except Exception only, and it catches the
\* interrupt too
MainExitOneClause(path) ==
    [cli EXCEPT !.pc = "exited", !.path = path,
                !.exit_code = IF path = "completed" THEN 0 ELSE 1,
                !.summary = (path # "completed")]

\* the try block of main() and its except clauses: sys.exit(0) after run()
\* returned, sys.exit(130) on KeyboardInterrupt, the boxed error summary and
\* sys.exit(1) on any other exception
MainExit(path) ==
    [cli EXCEPT !.pc = "exited", !.path = path,
                !.exit_code = IF path = "completed" THEN 0
                              ELSE IF path = "interrupted" THEN 130 ELSE 1,
                !.summary = (path = "exception")]

\* mutant: max_iterations is three times num_iterations
MaxSwarmIterationsTriple(num_iterations) == 3 * num_iterations

\* Swarm(max_handoffs = num_iterations, max_iterations = num_iterations * 2)
MaxSwarmHandoffs(num_iterations) == num_iterations
MaxSwarmIterations(num_iterations) == 2 * num_iterations

\* a cap of the swarm is reached
CapReached ==
    \/ cli.steps >= MaxSwarmIterations(cli.iterations)
    \/ cli.handoffs >= MaxSwarmHandoffs(cli.iterations)

\* mutant: validate_initial_program is not called
ValidateInputsFilesOnly ==
    /\ cli.pc = "main"
    /\ cli' = IF ~Exists(files, ProgramPath) THEN Exit(1)
              ELSE IF ~Exists(files, EvaluatorPath) THEN Exit(1)
              ELSE [cli EXCEPT !.pc = "orchestrator"]
    /\ UNCHANGED <<files, dirs, last, evaluation>>

\* validate_file_exists(initial_program), validate_file_exists(evaluator),
\* validate_initial_program(initial_program)
ValidateInputs ==
    /\ cli.pc = "main"
    /\ cli' = IF ~Exists(files, ProgramPath) THEN Exit(1)
              ELSE IF ~Exists(files, EvaluatorPath) THEN Exit(1)
              ELSE IF ~validate_program(files, ProgramPath) THEN Exit(1)
              ELSE IF extract_evolve_blocks(files, ProgramPath).kind # "ok" THEN Exit(1)
              ELSE [cli EXCEPT !.pc = "orchestrator"]
    /\ UNCHANGED <<files, dirs, last, evaluation>>

\* mutant: the directories are made and the initial program is not copied
SetupOutputDirectoryNoCopy ==
    /\ cli.pc = "orchestrator"
    /\ dirs' = dirs \cup {OutputDir, ProgramsDir, ConversationsDir}
    /\ cli' = [cli EXCEPT !.pc = "swarm"]
    /\ UNCHANGED <<files, last, evaluation>>

\* EvolutionOrchestrator(...) and the start of run(): _setup_output_directory
SetupOutputDirectory ==
    /\ cli.pc = "orchestrator"
    /\ dirs' = dirs \cup {OutputDir, ProgramsDir, ConversationsDir}
    /\ files' = [files EXCEPT ![InitialProgramCopy] = files[ProgramPath]]
    /\ cli' = [cli EXCEPT !.pc = "swarm"]
    /\ UNCHANGED <<last, evaluation>>

\* what the proposer asks for: new content for block 0, for blocks 0 and 1
ProposerRequests ==
    {FormatSection(<<BLOCK_ID_PREFIX, " ", "0">>, <<"b">>),
     FormatSection(<<BLOCK_ID_PREFIX, " ", "0">>, <<"b">>)
         \o FormatSection(<<BLOCK_ID_PREFIX, " ", "1">>, <<"b">>)}

\* the swarm starts a step, the run of an agent: only while it is below both
\* of its caps
SwarmStep ==
    /\ cli.pc = "swarm"
    /\ ~CapReached
    /\ cli' = [cli EXCEPT !.pc = "node", !.steps = @ + 1]
    /\ UNCHANGED <<files, dirs, last, evaluation>>

\* the proposer, in its step, calls the replace_evolve_blocks tool (once in
\* a step)
Propose(program_path, output_path, block_modifications) ==
    /\ cli.pc = "node"
    /\ ToolCall(program_path, output_path, block_modifications)
    /\ cli' = [cli EXCEPT !.pc = "called"]
    /\ UNCHANGED evaluation

\* how a step ends: the agent hands off to the other agent, the swarm goes
\* on without a handoff, or the agents are done
StepOutcomes == {"handoff", "continue", "finish"}

\* the step ends, at the latest at node_timeout
StepEnds(outcome) ==
    /\ cli.pc \in {"node", "called"}
    /\ cli' = [cli EXCEPT !.pc = IF outcome = "finish" THEN "finished" ELSE "swarm",
                          !.handoffs = IF outcome = "handoff" THEN @ + 1 ELSE @]
    /\ UNCHANGED <<files, dirs, last, evaluation>>

\* swarm(context) returns, because the agents are done or a cap is reached;
\* run() returns, sys.exit(0)
RunCompletes ==
    /\ \/ cli.pc = "finished"
       \/ cli.pc = "swarm" /\ CapReached
    /\ cli' = MainExit("completed")
    /\ UNCHANGED <<files, dirs, last, evaluation>>

\* where run() is
Running == {"orchestrator", "swarm", "node", "called", "finished"}

\* an exception is raised in run(), which logs and re-raises it: main()
\* prints the error summary, sys.exit(1)
RunFails ==
    /\ cli.pc \in Running
    /\ cli' = MainExit("exception")
    /\ UNCHANGED <<files, dirs, last, evaluation>>

\* KeyboardInterrupt in the try block of main(): sys.exit(130)
Interrupted ==
    /\ cli.pc \in Running
    /\ cli' = MainExit("interrupted")
    /\ UNCHANGED <<files, dirs, last, evaluation>>

\* the initial program is any text, or missing; the evaluator is there or
\* missing; nothing else exists
InitCLI ==
    /\ \E program \in {NoFile} \cup {File(text) : text \in Programs},
          evaluator \in {NoFile, File(<<"a", NL>>)} :
          files = [path \in CliPaths |->
                      IF path = ProgramPath THEN program
                      ELSE IF path = EvaluatorPath THEN evaluator
                      ELSE NoFile]
    /\ dirs = {ProgramPath.dir}
    /\ last = NoCall
    /\ \E n \in 1..MaxIter :
          cli = [NoCli EXCEPT !.pc = "main", !.iterations = n]
    /\ evaluation = NoEvaluation

NextCLI ==
    \/ ValidateInputs
    \/ SetupOutputDirectory
    \/ SwarmStep
    \/ \E o \in {VersionFile(n) : n \in 1..MaxIter}, m \in ProposerRequests :
          Propose(InitialProgramCopy, o, m)
    \/ \E outcome \in StepOutcomes : StepEnds(outcome)
    \/ RunCompletes
    \/ RunFails
    \/ Interrupted

SpecCLI == InitCLI /\ [][NextCLI]_vars

\* a run on an initial program of SeedPrograms or on none, with an evaluator
InitRun ==
    /\ \E program \in {NoFile} \cup {File(text) : text \in SeedPrograms} :
          files = [path \in CliPaths |->
                      IF path = ProgramPath THEN program
                      ELSE IF path = EvaluatorPath THEN File(<<"a", NL>>)
                      ELSE NoFile]
    /\ dirs = {ProgramPath.dir}
    /\ last = NoCall
    /\ \E n \in 1..MaxIter : cli = [NoCli EXCEPT !.pc = "main", !.iterations = n]
    /\ evaluation = NoEvaluation

\* the process keeps running until it exits, and every step of the swarm
\* ends
SpecRun ==
    /\ InitRun
    /\ [][NextCLI]_vars
    /\ WF_vars(ValidateInputs)
    /\ WF_vars(SetupOutputDirectory)
    /\ WF_vars(SwarmStep)
    /\ WF_vars(\E outcome \in StepOutcomes : StepEnds(outcome))
    /\ WF_vars(RunCompletes)

-----------------------------------------------------------------------------
(* Evaluation specification: calls of the evaluate_program tool, each with  *)
(* the runs of the scorer that the Evaluator makes for it.  The Evaluator   *)
(* (code_evolution/tools/evaluator.py) follows its description: a call is   *)
(* PENDING, then RUNNING, and a run ends SUCCEEDED, TIMED_OUT or CRASHED; a *)
(* run that timed out or crashed is retried up to max_retries more times,   *)
(* then the call ends with an EvaluationError.                              *)

\* EvaluatorConfig(timeout=timeout, max_retries=1)
MAX_RETRIES == 1

RunFailures == {"TIMED_OUT", "CRASHED"}

\* program_path_obj.parent / f"{program_path_obj.stem}_evaluation.txt"
ReportPath(program_path) ==
    [dir |-> program_path.dir,
     stem |-> IF program_path.stem = "program" THEN "program_evaluation"
              ELSE "iteration_evaluation",
     num |-> program_path.num]

\* the text of an evaluation report
ReportText == <<"a", NL>>

EvalPaths ==
    Paths \cup {EvaluatorPath} \cup {ReportPath(p) : p \in Paths \ {LockedPath}}
EvaluationEnded == {"SUCCEEDED", "EvaluationError"}

\* no call of the tool is under way, with the evaluations that are
\* scheduled as tasks on the running event loop
Idle == [NoEvaluation EXCEPT !.scheduled = evaluation.scheduled]

\* the evaluate_program tool is called, in a thread with a running event
\* loop (in_loop) or without one: it returns an error at once when a file is
\* missing; with a running loop it creates a task for the evaluation and
\* returns an error; otherwise it starts the Evaluator and waits for it
EvaluateProgram(program_path, evaluation_file, in_loop) ==
    /\ evaluation.state \in {"none"} \cup EvaluationEnded
    /\ IF ~Exists(files, program_path)
       THEN /\ last' = [op |-> "evaluate_program", program_path |-> program_path,
                        result |-> ToolError("Program file not found")]
            /\ evaluation' = Idle
       ELSE IF ~Exists(files, evaluation_file)
       THEN /\ last' = [op |-> "evaluate_program", program_path |-> program_path,
                        result |-> ToolError("Evaluation file not found")]
            /\ evaluation' = Idle
       ELSE IF in_loop
       THEN /\ evaluation.scheduled < MaxScheduled
            /\ last' = [op |-> "evaluate_program", program_path |-> program_path,
                        result |-> ToolError("cannot be called from async context")]
            /\ evaluation' = [Idle EXCEPT !.scheduled = @ + 1]
       ELSE /\ last' = [op |-> "evaluate_program", program_path |-> program_path,
                        result |-> [kind |-> "pending"]]
            /\ evaluation' = [Idle EXCEPT !.state = "PENDING",
                                          !.program_path = program_path]
    /\ UNCHANGED <<files, dirs, cli>>

\* an evaluation that was scheduled as a task on the running event loop runs
\* to its end; nothing reads its result
ScheduledEnds ==
    /\ evaluation.scheduled > 0
    /\ evaluation' = [evaluation EXCEPT !.scheduled = @ - 1]
    /\ UNCHANGED <<files, dirs, last, cli>>

\* the first run of the scorer starts
StartRun ==
    /\ evaluation.state = "PENDING"
    /\ evaluation' = [evaluation EXCEPT !.state = "RUNNING"]
    /\ UNCHANGED <<files, dirs, last, cli>>

\* the run ends: the scorer returned, the timeout expired, or the scorer
\* crashed; after a run that succeeded the tool writes the report next to
\* the program and returns the metrics
RunEnds(outcome) ==
    /\ evaluation.state = "RUNNING"
    /\ evaluation' = [evaluation EXCEPT !.state = outcome,
                                        !.runs = Append(@, outcome)]
    /\ last' = IF outcome = "SUCCEEDED"
               THEN [last EXCEPT !.result = [kind |-> "metrics"]]
               ELSE last
    /\ files' = IF outcome = "SUCCEEDED"
                THEN [files EXCEPT ![ReportPath(evaluation.program_path)] =
                                       File(ReportText)]
                ELSE files
    /\ UNCHANGED <<dirs, cli>>

\* mutant: a failed run is retried whatever the number of runs made
CanRetryAlways == TRUE

\* a failed run may be retried: fewer than 1 + max_retries runs were made
CanRetry == Len(evaluation.runs) < 1 + MAX_RETRIES

\* the scorer is run again after a run that timed out or crashed
Retry ==
    /\ evaluation.state \in RunFailures
    /\ CanRetry
    /\ evaluation' = [evaluation EXCEPT !.state = "RUNNING"]
    /\ UNCHANGED <<files, dirs, last, cli>>

\* mutant: the tool has no except clause, the exception leaves it
Propagated(exception) == [kind |-> "raised", message |-> exception]

\* except Exception as e: return f"Error evaluating program: {str(e)}"
Absorbed(exception) == ToolError("Error evaluating program")

\* the retries are exhausted: the call ends with an EvaluationError, which
\* the tool returns as an error message
GiveUp ==
    /\ evaluation.state \in RunFailures
    /\ ~CanRetry
    /\ evaluation' = [evaluation EXCEPT !.state = "EvaluationError"]
    /\ last' = [last EXCEPT !.result = Absorbed("EvaluationError")]
    /\ UNCHANGED <<files, dirs, cli>>

\* the initial program, with or without a first version of it, and the
\* evaluation file, there or missing
InitEval ==
    /\ \E text \in SeedPrograms, evaluator \in {NoFile, File(<<"a", NL>>)},
          version \in BOOLEAN :
          files = [path \in EvalPaths |->
                      IF path = ProgramPath THEN File(text)
                      ELSE IF path = VersionPath(OutputDir, 1) /\ version THEN File(text)
                      ELSE IF path = EvaluatorPath THEN evaluator
                      ELSE NoFile]
    /\ dirs = {ProgramPath.dir, LockedPath.dir, OutputDir}
    /\ last = NoCall
    /\ cli = NoCli
    /\ evaluation = NoEvaluation

NextEval ==
    \/ \E p \in Paths, in_loop \in BOOLEAN : EvaluateProgram(p, EvaluatorPath, in_loop)
    \/ ScheduledEnds
    \/ StartRun
    \/ \E outcome \in {"SUCCEEDED"} \cup RunFailures : RunEnds(outcome)
    \/ Retry
    \/ GiveUp

\* a call that was started goes on: the scorer runs under a timeout, so a
\* run ends, and the Evaluator then returns, retries or gives up
SpecEval ==
    /\ InitEval
    /\ [][NextEval]_vars
    /\ WF_vars(StartRun)
    /\ WF_vars(\E outcome \in {"SUCCEEDED"} \cup RunFailures : RunEnds(outcome))
    /\ WF_vars(Retry)
    /\ WF_vars(GiveUp)

-----------------------------------------------------------------------------
(* Parsing specification: one call of validate_program or                  *)
(* extract_evolve_blocks on any program text, or on a missing file         *)

InitParse ==
    /\ \E text \in ParsePrograms : files = [EmptyFiles EXCEPT ![ProgramPath] = File(text)]
    /\ dirs = {ProgramPath.dir, LockedPath.dir}
    /\ last = NoCall
    /\ cli = NoCli
    /\ evaluation = NoEvaluation

NextParse ==
    \/ \E p \in Paths : last = NoCall /\ Validate(p)
    \/ \E p \in Paths : last = NoCall /\ Extract(p)

SpecParse == InitParse /\ [][NextParse]_vars

-----------------------------------------------------------------------------
(* Vocabulary of the properties *)

\* the last call ran replace_evolve_blocks, directly or from create_version
Rewrote ==
    \/ last.op = "replace"
    \/ last.op = "create_version" /\ last.iteration_num >= 1

\* the last call was a rewrite that succeeded
RewriteOk == Rewrote /\ last.result.kind = "ok"

\* the file system the last rewrite read the program from
FilesRead == [files EXCEPT ![last.program_path] = last.file]

\* the program text the last rewrite read
TextRead == last.file[1]

\* the regions of the program the last rewrite read
Current == extract_evolve_blocks(FilesRead, last.program_path)

\* the text the last rewrite wrote
Output == Read(files, last.output_path)

IsPrefix(s, t) == Len(s) <= Len(t) /\ SubSeq(t, 1, Len(s)) = s

\* the text of a program outside its region bodies, as the segments the
\* bodies separate: segment k runs from the end marker line of region k-1
\* (the first line for k = 1) to the start marker line of region k (the last
\* line for the last segment), both included
Frame(lines, blocks) ==
    [k \in 1..(Len(blocks) + 1) |->
        Join(Slice(lines,
                   IF k = 1 THEN 0 ELSE blocks[k - 1].end_line,
                   IF k = Len(blocks) + 1 THEN Len(lines)
                   ELSE blocks[k].start_line + 1))]

\* text is the segments in order with some text between each two of them
RECURSIVE FrameKept(_, _)
FrameKept(text, segments) ==
    IF Len(segments) = 1 THEN text = segments[1]
    ELSE /\ IsPrefix(segments[1], text)
         /\ \E d \in Len(segments[1])..Len(text) :
               FrameKept(SubSeq(text, d + 1, Len(text)), Tail(segments))

\* the segments with bodies[k] between segment k and segment k+1
RECURSIVE Splice(_, _)
Splice(segments, bodies) ==
    IF Len(segments) = 1 THEN segments[1]
    ELSE segments[1] \o bodies[1] \o Splice(Tail(segments), Tail(bodies))

Ids(blocks) == [k \in DOMAIN blocks |-> blocks[k].block_id]

MarkerFree(text) ==
    ~Contains(text, BLOCK_START_MARKER) /\ ~Contains(text, BLOCK_END_MARKER)

-----------------------------------------------------------------------------
(* C1: after every successful replace_evolve_blocks the output is the       *)
(* original program with only its region bodies changed: every line that is *)
(* not strictly between a start marker line and its end marker line, the    *)
(* marker lines included, is in the output unchanged and in the same order. *)
C1_FramePreserved ==
    RewriteOk =>
        FrameKept(Output, Frame(ReadLines(TextRead), Current.blocks))

\* a rewrite of a region that has lines before and after it, with new content
C1_Witness ==
    /\ RewriteOk
    /\ Len(Current.blocks) = 1
    /\ Current.blocks[1].start_line > 0
    /\ Current.blocks[1].end_line + 1 < Len(ReadLines(TextRead))
    /\ last.blocks[1].content = <<"b">>

(* C2: round trip: replace_evolve_blocks with exactly the blocks that       *)
(* extract_evolve_blocks returned for the program succeeds and writes the   *)
(* program text unchanged.                                                  *)
C2_RoundTrip ==
    (Rewrote /\ Current.kind = "ok" /\ last.blocks = Current.blocks) =>
        (RewriteOk /\ Output = TextRead)

\* a round trip of a program with a region body, whose last line has no
\* terminator
C2_Witness ==
    /\ RewriteOk
    /\ last.blocks = Current.blocks
    /\ \E k \in DOMAIN last.blocks : last.blocks[k].content # <<>>
    /\ ~EndsWithNL(TextRead)

C4_CountMismatchRejected ==
    (Rewrote /\ Current.kind = "ok" /\ Len(last.blocks) # Len(Current.blocks)) =>
        last.result = [kind |-> "count_mismatch",
                       expected |-> Len(Current.blocks),
                       got |-> Len(last.blocks)]

\* an empty list for a program with regions is rejected
C4_Witness ==
    /\ Rewrote
    /\ Current.kind = "ok"
    /\ Len(Current.blocks) > 0
    /\ last.blocks = <<>>
    /\ last.result.kind = "count_mismatch"

\* every id of the current regions is the id of exactly one replacement
IdsMatch(blocks, current_blocks) ==
    \A c \in DOMAIN current_blocks :
        Cardinality({k \in DOMAIN blocks :
                        blocks[k].block_id = current_blocks[c].block_id}) = 1

(* C5: with a replacement list as long as the region count, the rewrite     *)
(* succeeds only if the replacement ids, sorted, are the ids of the current *)
(* regions; a missing, repeated or unexpected id fails with the id mismatch *)
(* error.                                                                   *)
C5_IdMismatchRejected ==
    (Rewrote /\ Current.kind = "ok" /\ Len(last.blocks) = Len(Current.blocks)) =>
        /\ last.result.kind = "ok" => IdsMatch(last.blocks, Current.blocks)
        /\ ~IdsMatch(last.blocks, Current.blocks) => last.result.kind = "id_mismatch"

\* two replacements with the same id for a program with two regions
C5_Witness ==
    /\ Rewrote
    /\ Current.kind = "ok"
    /\ Len(last.blocks) = 2
    /\ Len(Current.blocks) = 2
    /\ last.blocks[1].block_id = last.blocks[2].block_id
    /\ last.result.kind = "id_mismatch"

\* the permutations of a list
Reorderings(blocks) ==
    {[k \in DOMAIN blocks |-> blocks[f[k]]] : f \in Permutations(DOMAIN blocks)}

\* the content of the replacement whose id is block_id
ContentOf(blocks, block_id) ==
    (CHOOSE b \in {blocks[k] : k \in DOMAIN blocks} : b.block_id = block_id).content

(* C7: for a valid replacement list, every permutation of the list gives    *)
(* the same output, and the content of each replacement is in the span of   *)
(* the region whose id is its block_id (followed by at most one added line  *)
(* terminator).                                                             *)
C7_OrderIndependent ==
    RewriteOk =>
        /\ \A perm \in Reorderings(last.blocks) :
              LET r == Rewrite(FilesRead, last.program_path, perm) IN
              r.kind = "ok" /\ Join(r.new_lines) = Output
        /\ \E ends \in [DOMAIN last.blocks -> {<<>>, <<NL>>}] :
              Output = Splice(Frame(ReadLines(TextRead), Current.blocks),
                              [k \in DOMAIN last.blocks |->
                                  ContentOf(last.blocks, Current.blocks[k].block_id)
                                      \o ends[k]])

\* the replacements of two regions given as [id 1, id 0], with different contents
C7_Witness ==
    /\ RewriteOk
    /\ Len(last.blocks) = 2
    /\ last.blocks[1].block_id = 1
    /\ last.blocks[2].block_id = 0
    /\ last.blocks[1].content = <<"b">>
    /\ last.blocks[2].content = <<>>

ContractErrors == {"count_mismatch", "id_mismatch"}

(* C6: a rewrite that fails with a contract error (count mismatch or id     *)
(* mismatch) writes nothing: no file is created, and every file, the        *)
(* destination and every version written before included, keeps its         *)
(* content.                                                                  *)
C6_ContractErrorWritesNothing ==
    [][(last'.op \in {"replace", "create_version"}
            /\ last'.result.kind \in ContractErrors) => files' = files]_vars

\* create_version fails with a contract error on a destination that a version
\* was written to before
C6_Witness ==
    /\ last.op = "create_version"
    /\ last.result.kind \in ContractErrors
    /\ Exists(files, last.output_path)

-----------------------------------------------------------------------------
(* Properties of validate_program and extract_evolve_blocks *)

\* the text of the file the last call was given
TextGiven == Read(files, last.program_path)

\* line j is a start marker line that follows the start marker line i, which
\* holds no end marker, with no end marker line between them
NestedStart(lines) ==
    \E i, j \in DOMAIN lines :
        /\ i < j
        /\ Contains(lines[i], BLOCK_START_MARKER)
        /\ ~Contains(lines[i], BLOCK_END_MARKER)
        /\ Contains(lines[j], BLOCK_START_MARKER)
        /\ \A k \in (i + 1)..(j - 1) : ~Contains(lines[k], BLOCK_END_MARKER)

(* C8, as claimed: validate_program returns False for every text in which a *)
(* start marker line follows an unclosed start marker line with no end      *)
(* marker line between them, whatever follows.                              *)
C8_NestingRejected ==
    (last.op = "validate" /\ Exists(files, last.program_path) /\ NestedStart(ReadLines(TextGiven)))
        => last.result = FALSE

IsMarker(c) == c \in {BLOCK_START_MARKER, BLOCK_END_MARKER}

\* a sequence of start and end markers is balanced: no end marker without an
\* open start marker before it, and as many end markers as start markers
Balanced(markers) ==
    /\ \A k \in 0..Len(markers) :
          Count(SubSeq(markers, 1, k), BLOCK_END_MARKER)
              <= Count(SubSeq(markers, 1, k), BLOCK_START_MARKER)
    /\ Count(markers, BLOCK_END_MARKER) = Count(markers, BLOCK_START_MARKER)

\* the marker occurrences of a text, in order
MarkersOf(text) == SelectSeq(text, IsMarker)

\* the marker lines of a text, in order: a line that holds a start marker is
\* a start marker line whatever else it holds, a line that holds end markers
\* only is an end marker line
MarkerLinesOf(text) ==
    LET lines == ReadLines(text)
        kind == [k \in DOMAIN lines |->
                    IF Contains(lines[k], BLOCK_START_MARKER) THEN BLOCK_START_MARKER
                    ELSE IF Contains(lines[k], BLOCK_END_MARKER) THEN BLOCK_END_MARKER
                    ELSE "other"]
    IN  SelectSeq(kind, IsMarker)

(* C9, as claimed: validate_program returns True iff the number of start    *)
(* markers equals the number of end markers, both are at least 1, and the   *)
(* markers are balanced (every end marker closes an open start marker and   *)
(* no start marker is left open); an unreadable file gives False.           *)
C9_TrueIffMarkersBalanced ==
    last.op = "validate" =>
        last.result =
            (/\ Exists(files, last.program_path)
             /\ Count(TextGiven, BLOCK_START_MARKER) = Count(TextGiven, BLOCK_END_MARKER)
             /\ Count(TextGiven, BLOCK_START_MARKER) >= 1
             /\ Count(TextGiven, BLOCK_END_MARKER) >= 1
             /\ Balanced(MarkersOf(TextGiven)))

(* C9, amended: validate_program returns True iff the number of start       *)
(* marker occurrences equals the number of end marker occurrences, both are *)
(* at least 1, and the marker lines are balanced, a line that holds a start *)
(* marker counting as one start marker line whatever else it holds and a    *)
(* line that holds end markers only as one end marker line; an unreadable   *)
(* file gives False.                                                        *)
C9_TrueIffMarkerLinesBalanced ==
    last.op = "validate" =>
        last.result =
            (/\ Exists(files, last.program_path)
             /\ Count(TextGiven, BLOCK_START_MARKER) = Count(TextGiven, BLOCK_END_MARKER)
             /\ Count(TextGiven, BLOCK_START_MARKER) >= 1
             /\ Count(TextGiven, BLOCK_END_MARKER) >= 1
             /\ Balanced(MarkerLinesOf(TextGiven)))

\* validate_program returned True for a text with two marker lines of which
\* one holds two markers
C9_Witness ==
    /\ last.op = "validate"
    /\ last.result = TRUE
    /\ Len(MarkersOf(TextGiven)) > Len(MarkerLinesOf(TextGiven))

(* C10: the blocks extract_evolve_blocks returns have the ids 0..n-1 in     *)
(* order of appearance, each has start_line < end_line, each ends strictly  *)
(* before the next one starts, and each satisfies the construction          *)
(* invariants of EvolveBlock.                                               *)
C10_BlocksOrdered ==
    (last.op = "extract" /\ last.result.kind = "ok") =>
        LET blocks == last.result.blocks IN
        /\ \A k \in DOMAIN blocks :
              /\ blocks[k] # InvalidBlock
              /\ blocks[k].block_id = k - 1
              /\ blocks[k].start_line >= 0
              /\ blocks[k].start_line < blocks[k].end_line
        /\ \A k \in 1..(Len(blocks) - 1) :
              blocks[k].end_line < blocks[k + 1].start_line

\* two blocks were extracted
C10_Witness ==
    /\ last.op = "extract"
    /\ last.result.kind = "ok"
    /\ Len(last.result.blocks) = 2

\* the number of characters of the first n lines
Offset(lines, n) == Len(Join(SubSeq(lines, 1, n)))

(* C11: the content of every block extract_evolve_blocks returns is exactly *)
(* the text of the file between the end of the block's start marker line    *)
(* and the beginning of its end marker line, neither marker line included;  *)
(* it is the empty string when the end marker line immediately follows the  *)
(* start marker line.                                                       *)
C11_ContentBetweenMarkers ==
    (last.op = "extract" /\ last.result.kind = "ok") =>
        LET lines == ReadLines(TextGiven) IN
        \A k \in DOMAIN last.result.blocks :
            LET block == last.result.blocks[k] IN
            /\ Contains(lines[block.start_line + 1], BLOCK_START_MARKER)
            /\ Contains(lines[block.end_line + 1], BLOCK_END_MARKER)
            /\ block.content = SubSeq(TextGiven,
                                      Offset(lines, block.start_line + 1) + 1,
                                      Offset(lines, block.end_line))
            /\ block.end_line = block.start_line + 1 => block.content = <<>>

\* a block with a body was extracted from a program whose first line is not
\* the start marker line
C11_Witness ==
    /\ last.op = "extract"
    /\ last.result.kind = "ok"
    /\ \E k \in DOMAIN last.result.blocks :
          /\ last.result.blocks[k].start_line > 0
          /\ last.result.blocks[k].content # <<>>

\* the 1-based numbers of the start marker lines with no end marker line
\* anywhere after them
UnclosedStarts(lines) ==
    {i \in DOMAIN lines :
        /\ Contains(lines[i], BLOCK_START_MARKER)
        /\ \A j \in (i + 1)..Len(lines) : ~Contains(lines[j], BLOCK_END_MARKER)}

UnclosedStartOnly(lines) ==
    {i \in UnclosedStarts(lines) : ~Contains(lines[i], BLOCK_END_MARKER)}

StrayEnd(text) ==
    \E k \in 1..Len(MarkerLinesOf(text)) :
        Count(SubSeq(MarkerLinesOf(text), 1, k), BLOCK_END_MARKER)
            > Count(SubSeq(MarkerLinesOf(text), 1, k), BLOCK_START_MARKER)

(* C13, as claimed: when the scan of extract_evolve_blocks meets an end     *)
(* marker line while no region is open, the call fails with a structural    *)
(* error and returns no block list.                                         *)
C13_StrayEndRejected ==
    (/\ last.op = "extract"
     /\ Exists(files, last.program_path)
     /\ StrayEnd(TextGiven)) =>
        last.result.kind # "ok"

-----------------------------------------------------------------------------
(* Properties of the content replace_evolve_blocks inserts *)

\* content with one terminator appended unless it ends with one
TerminatedUnlessTerminated(content) ==
    IF EndsWithNL(content) THEN content ELSE content \o <<NL>>

\* content with one terminator appended unless it is empty or ends with one
TerminatedUnlessEmpty(content) ==
    IF content = <<>> \/ EndsWithNL(content) THEN content ELSE content \o <<NL>>

\* the bodies of the regions of the output, when T(content) is what is
\* written for a replacement content
BodiesWith(T(_)) ==
    [k \in DOMAIN last.blocks |->
        T(ContentOf(last.blocks, Current.blocks[k].block_id))]

\* the output up to the end marker line of region k
BeforeEndMarker(segments, bodies, k) ==
    Splice(SubSeq(segments, 1, k), SubSeq(bodies, 1, k - 1)) \o bodies[k]

-----------------------------------------------------------------------------
(* Properties of the files replace_evolve_blocks and create_version write *)

(* C15, as claimed: replace_evolve_blocks never changes the file at         *)
(* program_path, whatever its arguments, an output_path that designates     *)
(* the same file included.                                                  *)
C15_OriginalNeverMutated ==
    [][last'.op = "replace" =>
           files'[last'.program_path] = files[last'.program_path]]_vars

\* the version files that exist
Versions(fs) == {n \in 1..MaxIter : Exists(fs, VersionPath(OutputDir, n))}

(* C18, as claimed: once a version file is written, no later create_version *)
(* or replace_evolve_blocks call changes or deletes it.                     *)
C18_VersionsDurable ==
    [][\A n \in Versions(files) :
           files'[VersionPath(OutputDir, n)] = files[VersionPath(OutputDir, n)]]_vars

(* C19, as claimed: the numbers of the versions create_version has written  *)
(* are 1..k with no gap (version 0 is the initial program): after every     *)
(* successful create_version every lower version number is materialized.    *)
C19_VersionNumbersDense ==
    (last.op = "create_version" /\ last.result.kind = "ok") =>
        \A n \in 1..last.iteration_num : n \in Versions(files)

-----------------------------------------------------------------------------
(* Properties of the replace_evolve_blocks tool *)

\* the digit that int() reads as n
DigitOf(n) == CHOOSE d \in Digits : DigitValue(d) = n

\* the block_modifications text that names the ids of named, in that order,
\* each with the content "b"
RequestNaming(named) ==
    Join([k \in DOMAIN named |->
            FormatSection(<<BLOCK_ID_PREFIX, " ", DigitOf(named[k])>>, <<"b">>)])

\* the lists of up to MaxSections different ids of blocks
Namings(blocks) ==
    {named \in SeqsUpTo({blocks[k].block_id : k \in DOMAIN blocks}, MaxSections) :
        \A i, j \in DOMAIN named : i # j => named[i] # named[j]}

(* C17, as claimed: a call of the replace_evolve_blocks tool whose          *)
(* block_modifications names k different ids of the n blocks of the         *)
(* program, for any 0 <= k <= n, with a content for each, succeeds and      *)
(* writes the output file.                                                  *)
C17_AnySubsetAccepted ==
    (/\ last.op = "tool_replace"
     /\ Current.kind = "ok"
     /\ Writable(last.output_path)
     /\ \E named \in Namings(Current.blocks) :
           last.block_modifications = RequestNaming(named)) =>
        /\ last.result.kind = "success"
        /\ Exists(files, last.output_path)

-----------------------------------------------------------------------------
(* Properties of the command line *)

\* the initial program fails validation
InitialProgramInvalid == ~validate_program(files, ProgramPath)

\* nothing of a run exists: no output directory, no copy of the initial
\* program, no version file
NothingCreated ==
    /\ dirs \cap {OutputDir, ProgramsDir, ConversationsDir} = {}
    /\ \A path \in CliPaths \ {ProgramPath, EvaluatorPath} : ~Exists(files, path)

(* C16: when the initial program fails validation, the command line exits   *)
(* with code 1 before anything is created and before the orchestrator or    *)
(* the proposer runs: the process is either still in its input validation   *)
(* or has exited with code 1, no output directory, copy of the initial      *)
(* program or version file exists, and no tool has been called.             *)
C16_InvalidProgramRejectedFirst ==
    (cli.pc # "none" /\ InitialProgramInvalid) =>
        /\ cli.pc \in {"main", "exited"}
        /\ cli.pc = "exited" => cli.exit_code = 1
        /\ NothingCreated
        /\ last = NoCall

\* the command line has exited on an initial program that has markers and
\* fails validation
C16_Witness ==
    /\ cli.pc = "exited"
    /\ Exists(files, ProgramPath)
    /\ Exists(files, EvaluatorPath)
    /\ Contains(Read(files, ProgramPath), BLOCK_START_MARKER)
    /\ InitialProgramInvalid

-----------------------------------------------------------------------------
(* Properties of evaluate_program *)

\* the states an evaluate call may go to from each state
EvaluationSteps ==
    [none |-> {"PENDING"},
     PENDING |-> {"RUNNING"},
     RUNNING |-> {"SUCCEEDED", "TIMED_OUT", "CRASHED"},
     TIMED_OUT |-> {"RUNNING", "EvaluationError"},
     CRASHED |-> {"RUNNING", "EvaluationError"},
     SUCCEEDED |-> {"PENDING", "none"},
     EvaluationError |-> {"PENDING", "none"}]

(* C20: every evaluate call goes PENDING, RUNNING, then SUCCEEDED,          *)
(* TIMED_OUT or CRASHED; the scorer is run at most 1 + max_retries times; a *)
(* run is started again only after a run that timed out or crashed; the     *)
(* first run that succeeds ends the call with its result; a call ends with  *)
(* an EvaluationError only when 1 + max_retries runs have timed out or      *)
(* crashed; and every call that was started ends.                           *)
C20_EvaluateStateMachine ==
    /\ [][evaluation'.state # evaluation.state =>
              evaluation'.state \in EvaluationSteps[evaluation.state]]_vars
    /\ [](/\ Len(evaluation.runs) <= 1 + MAX_RETRIES
          /\ \A k \in 1..(Len(evaluation.runs) - 1) : evaluation.runs[k] \in RunFailures
          /\ evaluation.state = "SUCCEEDED" =>
                /\ evaluation.runs[Len(evaluation.runs)] = "SUCCEEDED"
                /\ last.result = [kind |-> "metrics"]
          /\ evaluation.state = "EvaluationError" =>
                /\ Len(evaluation.runs) = 1 + MAX_RETRIES
                /\ evaluation.runs[Len(evaluation.runs)] \in RunFailures
                /\ last.result.kind = "error")
    /\ (evaluation.state = "PENDING") ~> (evaluation.state \in EvaluationEnded)

\* a call ended with an EvaluationError after a run that timed out and a run
\* that crashed
C20_Witness ==
    /\ evaluation.state = "EvaluationError"
    /\ evaluation.runs = <<"TIMED_OUT", "CRASHED">>

-----------------------------------------------------------------------------
(* Agreement of validate_program and extract_evolve_blocks *)

\* what extract_evolve_blocks gives for the file the last call was given
ExtractGiven == extract_evolve_blocks(files, last.program_path)

(* C26: for every file for which validate_program returns True,             *)
(* extract_evolve_blocks on the same file raises no error and returns at    *)
(* least one block.                                                         *)
C26_ValidImpliesExtractable ==
    (last.op = "validate" /\ last.result = TRUE) =>
        /\ ExtractGiven.kind = "ok"
        /\ Len(ExtractGiven.blocks) >= 1

\* validate_program returned True for a file with two regions
C26_Witness ==
    /\ last.op = "validate"
    /\ last.result = TRUE
    /\ ExtractGiven.kind = "ok"
    /\ Len(ExtractGiven.blocks) = 2

(* C27, as claimed: for every file for which validate_program returns True, *)
(* the number of blocks extract_evolve_blocks returns is the number of      *)
(* start markers validate_program counted.                                  *)
C27_ValidCountIsBlockCount ==
    (last.op = "validate" /\ last.result = TRUE) =>
        /\ ExtractGiven.kind = "ok"
        /\ Len(ExtractGiven.blocks) = Count(TextGiven, BLOCK_START_MARKER)

-----------------------------------------------------------------------------
(* Rewrite followed by extraction *)

\* the regions of the output of the last rewrite
After == extract_evolve_blocks(files, last.output_path)

\* the replacement the last rewrite was given for region id
ReplacementFor(id) ==
    CHOOSE k \in DOMAIN last.blocks : last.blocks[k].block_id = id

ContentsMarkerFree == \A k \in DOMAIN last.blocks : MarkerFree(last.blocks[k].content)

(* C28: for replacement contents that hold no marker, after a successful    *)
(* rewrite extract_evolve_blocks on the output returns, for each id k, the  *)
(* content of replacement k, with one terminator appended when that content *)
(* is not empty and lacks one; and the rewrite of the output with the same  *)
(* replacements gives the output again.                                     *)
C28_ReplaceThenExtract ==
    (RewriteOk /\ ContentsMarkerFree) =>
        /\ After.kind = "ok"
        /\ Len(After.blocks) = Len(last.blocks)
        /\ \A j \in DOMAIN After.blocks :
              After.blocks[j].content =
                  TerminatedUnlessEmpty(last.blocks[ReplacementFor(After.blocks[j].block_id)].content)
        /\ LET again == Rewrite(files, last.output_path, last.blocks) IN
           again.kind = "ok" /\ Join(again.new_lines) = Output

\* a rewrite of two regions given out of id order: one replacement lacks its
\* terminator, the other is empty
C28_Witness ==
    /\ RewriteOk
    /\ Len(last.blocks) = 2
    /\ last.blocks[1].block_id = 1
    /\ last.blocks[1].content = <<"b">>
    /\ last.blocks[2].content = <<>>
    /\ After.kind = "ok"
    /\ After.blocks[2].content = <<"b", NL>>

\* the program the last rewrite read passes the count and the id validation
Validated ==
    /\ Rewrote
    /\ Exists(FilesRead, last.program_path)
    /\ Current.kind = "ok"
    /\ CheckCount(last.blocks, Current.blocks).kind = "ok"
    /\ CheckIds(SortById(last.blocks), Current.blocks).kind = "ok"

\* the walk of the last rewrite
Walk == RewriteLoop(ReadLines(TextRead), SortById(last.blocks), 0, 0, <<>>)

(* C29: once the count and the id validation have passed, the walk of       *)
(* replace_evolve_blocks never reads the replacement list out of range: it  *)
(* ends without an index error and with its index equal to the number of    *)
(* replacements, for every program text, stray and nested markers included. *)
C29_IndexInRange ==
    Validated =>
        /\ Walk.kind = "ok"
        /\ Walk.block_idx = Len(last.blocks)
        /\ last.result.kind \in {"ok", "io_error"}
        /\ last.result.kind = "ok" => last.result.block_idx = Len(last.blocks)

\* a rewrite of a program with a nested start marker and an end marker that
\* closes nothing
C29_Witness ==
    /\ Validated
    /\ last.result.kind = "ok"
    /\ Count(TextRead, BLOCK_START_MARKER) = 2
    /\ Count(TextRead, BLOCK_END_MARKER) = 2
    /\ Len(last.blocks) = 1

-----------------------------------------------------------------------------
(* The replace_evolve_blocks tool is all-or-nothing *)

\* a block_modifications text made of sections in the layout of
\* FormatSection has a malformed section (a header that is not BLOCK_ID:
\* followed by a number, or no content): the only "x" of these texts are in
\* such headers, and only a section without content has two terminators in
\* a row
HasMalformedSection(m) ==
    \/ Contains(m, "x")
    \/ \E i \in 1..(Len(m) - 1) : m[i] = NL /\ m[i + 1] = NL

\* the ids the headers of such a text name
NamedIds(m) == {DigitValue(m[i]) : i \in {i \in DOMAIN m : m[i] \in Digits}}

\* the call of the tool, made on the file system fs, was given a malformed
\* section, an id that the program does not have, or a program file that
\* does not exist
ToolCallRejectable(call, fs) ==
    /\ call.op = "tool_replace"
    /\ \/ HasMalformedSection(call.block_modifications)
       \/ LET current == extract_evolve_blocks(fs, call.program_path) IN
          /\ current.kind = "ok"
          /\ \E id \in NamedIds(call.block_modifications) :
                 \A k \in DOMAIN current.blocks : current.blocks[k].block_id # id
       \/ ~Exists(fs, call.program_path)

(* C30: the replace_evolve_blocks tool is all-or-nothing and never raises:  *)
(* every call returns a success or an error message; a call with a          *)
(* malformed section, with an id that the program does not have, or with a  *)
(* program file that does not exist returns an error message and leaves     *)
(* every file as it was; a file changes only in a call that returns         *)
(* success, after every section was parsed.                                 *)
C30_ToolAllOrNothing ==
    [][/\ last'.op = "tool_replace" => last'.result.kind \in {"success", "error"}
       /\ ToolCallRejectable(last', files) =>
              (last'.result.kind = "error" /\ files' = files)
       /\ files' # files =>
              /\ last'.result.kind = "success"
              /\ ~HasMalformedSection(last'.block_modifications)]_vars

\* a call whose first section names the block of the program and whose
\* second section has no content: an error, and no output file
C30_Witness ==
    /\ last.op = "tool_replace"
    /\ Current.kind = "ok"
    /\ Len(Current.blocks) = 1
    /\ Writable(last.output_path)
    /\ last.output_path # last.program_path
    /\ last.block_modifications =
           FormatSection(<<BLOCK_ID_PREFIX, " ", "0">>, <<"b">>)
               \o FormatSection(<<BLOCK_ID_PREFIX, " ", "0">>, <<>>)
    /\ last.result.kind = "error"
    /\ ~Exists(files, last.output_path)

-----------------------------------------------------------------------------
(* Properties of a run *)

\* the orchestrator has set up the output directory and the proposer has not
\* been invoked yet
BeforeFirstProposal == cli.pc = "swarm" /\ cli.steps = 0

\* path holds an unmodified copy of the initial program, in programs/
VersionZeroAt(path) ==
    /\ {OutputDir, ProgramsDir} \subseteq dirs
    /\ path.dir = ProgramsDir
    /\ Exists(files, path)
    /\ files[path] = files[ProgramPath]

(* C25, as claimed: before the proposer is first invoked, the run has       *)
(* created <output_dir>/programs/ with an unmodified copy of the initial    *)
(* program named v000_<initial-name>.                                       *)
C25_VersionZeroNamedV000 ==
    BeforeFirstProposal => VersionZeroAt(PaddedVersionFile(3, 0))

(* C25, amended: before the proposer is first invoked, the run has created  *)
(* <output_dir>/programs/ with an unmodified copy of the initial program    *)
(* named v00_<initial-name>, and has left the initial program unchanged.    *)
C25_VersionZeroCopied ==
    /\ [](BeforeFirstProposal => VersionZeroAt(InitialProgramCopy))
    /\ [][cli.pc \in {"main", "orchestrator"} => files'[ProgramPath] = files[ProgramPath]]_vars

\* the proposer is about to be invoked for the first time, on a program of
\* two regions
C25_Witness ==
    /\ BeforeFirstProposal
    /\ VersionZeroAt(InitialProgramCopy)
    /\ Count(Read(files, InitialProgramCopy), BLOCK_START_MARKER) = 2

(* C24: the exit code is 0 exactly when the run completes normally and 130  *)
(* exactly when it is interrupted (KeyboardInterrupt); it is 1 after a      *)
(* failed input validation and after any other exception; the exit after    *)
(* an exception that is not the interrupt is preceded by the boxed error    *)
(* summary, and no other exit is.                                           *)
C24_ExitCodes ==
    cli.pc = "exited" =>
        /\ cli.exit_code = 0 <=> cli.path = "completed"
        /\ cli.exit_code = 130 <=> cli.path = "interrupted"
        /\ cli.path \in {"validation", "exception"} => cli.exit_code = 1
        /\ cli.path = "exception" => cli.summary
        /\ cli.summary => cli.exit_code = 1

\* the run was interrupted after the proposer wrote a version
C24_Witness ==
    /\ cli.pc = "exited"
    /\ cli.exit_code = 130
    /\ cli.steps >= 1
    /\ Exists(files, VersionFile(1))

(* C23: a run started with N iterations terminates: the swarm takes at most *)
(* N handoffs and 2 * N steps and takes no step once a cap is reached; at a *)
(* cap the run ends, and unless an exception or the interrupt ends it, it   *)
(* ends with exit code 0 and the versions written so far.                   *)
C23_RunTerminatesAtCaps ==
    /\ [](cli.pc # "none" =>
            /\ cli.handoffs <= cli.iterations
            /\ cli.steps <= 2 * cli.iterations)
    /\ [][(cli.pc = "swarm" /\ CapReached) =>
            /\ cli'.pc = "exited"
            /\ cli'.steps = cli.steps
            /\ files' = files
            /\ cli'.path = "completed" => cli'.exit_code = 0]_vars
    /\ (cli.pc = "main") ~> (cli.pc = "exited")

\* the run ended with exit code 0 at the cap of the steps, below the cap of
\* the handoffs, with a version written
C23_Witness ==
    /\ cli.pc = "exited"
    /\ cli.exit_code = 0
    /\ cli.steps = 2 * cli.iterations
    /\ cli.handoffs < cli.iterations
    /\ Exists(files, VersionFile(1))

-----------------------------------------------------------------------------
(* Failures of an evaluation, and evaluations left behind *)

\* the call of evaluate_program has returned
CallReturned == evaluation.state \in {"none"} \cup EvaluationEnded

(* C21: a failure of an evaluation never aborts the run: a missing file, and *)
(* a timeout or a crash of the scorer once the retries are exhausted, end    *)
(* the call of evaluate_program with an error message as its result; no      *)
(* exception leaves the tool, and a next call can be made.                   *)
C21_EvaluationFailureAbsorbed ==
    last.op = "evaluate_program" =>
        /\ last.result.kind \in {"pending", "metrics", "error"}
        /\ evaluation.state = "EvaluationError" => last.result.kind = "error"
        /\ (CallReturned /\ ~Exists(files, last.program_path)) => last.result.kind = "error"
        /\ (CallReturned /\ ~Exists(files, EvaluatorPath)) => last.result.kind = "error"
        /\ CallReturned => last.result.kind # "pending"
        /\ CallReturned =>
               ENABLED (\E p \in Paths : EvaluateProgram(p, EvaluatorPath, FALSE))

\* a call has ended with an error after a crash and a timeout of the scorer
C21_Witness ==
    /\ evaluation.state = "EvaluationError"
    /\ evaluation.runs = <<"CRASHED", "TIMED_OUT">>
    /\ last.result.kind = "error"

\* the evaluations in progress: the one of the call under way, and the ones
\* scheduled as tasks
InProgress ==
    evaluation.scheduled + (IF CallReturned THEN 0 ELSE 1)

(* C22, as claimed: evaluation is synchronous: at most one evaluation is in *)
(* progress at any time, and no evaluation that a call of evaluate_program  *)
(* started is still scheduled or running after that call has returned, in   *)
(* particular when the call returned an error.                              *)
C22_EvaluationSynchronous ==
    /\ InProgress <= 1
    /\ CallReturned => evaluation.scheduled = 0

=============================================================================
